---- MODULE Spec2Model ----
(***************************************************************************)
(* Model of the GraphQL page analyzer: the file scanner and grouper, the   *)
(* remote analysis client with its reply post-processing, and the two      *)
(* entry points (the grouped-files run of main and the page-discovery run  *)
(* of runAnalysis).                                                        *)
(*                                                                         *)
(* A text is a sequence of characters.  The characters of the code fences  *)
(* are single characters; a JSON token (a punctuation mark, a quoted       *)
(* string, a literal) is kept as one element of the sequence.              *)
(***************************************************************************)
EXTENDS Integers, Sequences, FiniteSets, TLC

(***************************************************************************)
(* JavaScript values, tagged by type.                                      *)
(***************************************************************************)
Undefined == [t |-> "undefined"]
Null == [t |-> "null"]
Num(k) == [t |-> "number", n |-> k]
Str(x) == [t |-> "string", s |-> x]
Arr(xs) == [t |-> "array", items |-> xs]
Obj(ks, vs) == [t |-> "object", keys |-> ks, vals |-> vs]

\* The quoted-string tokens of the texts, each with the string it denotes
\* and that string's length.
StringToken ==
    [tok \in {"\"queries\"", "\"mutations\"", "\"name\"", "\"path\"",
              "\"A\"", "\"B\"", "\"/a\"", "\"/b\"", "\"\"", "\"I cannot answer\""} |->
        CASE tok = "\"queries\"" -> [s |-> "queries", len |-> 7]
          [] tok = "\"mutations\"" -> [s |-> "mutations", len |-> 9]
          [] tok = "\"name\"" -> [s |-> "name", len |-> 4]
          [] tok = "\"path\"" -> [s |-> "path", len |-> 4]
          [] tok = "\"A\"" -> [s |-> "A", len |-> 1]
          [] tok = "\"B\"" -> [s |-> "B", len |-> 1]
          [] tok = "\"/a\"" -> [s |-> "/a", len |-> 2]
          [] tok = "\"/b\"" -> [s |-> "/b", len |-> 2]
          [] tok = "\"\"" -> [s |-> "", len |-> 0]
          [] tok = "\"I cannot answer\"" -> [s |-> "I cannot answer", len |-> 15]]

NumberToken == [tok \in {"0", "1", "2"} |->
    CASE tok = "0" -> 0 [] tok = "1" -> 1 [] tok = "2" -> 2]

WhiteSpace == {" ", "\n"}

\* String.prototype.length of a string the texts can denote.
StrLength(x) ==
    LET toks == {tok \in DOMAIN StringToken : StringToken[tok].s = x}
    IN  StringToken[CHOOSE tok \in toks : TRUE].len

(***************************************************************************)
(* JSON.parse, by recursive descent.  A result is [ok |-> FALSE] (a        *)
(* SyntaxError) or [ok |-> TRUE, val |-> value, next |-> position after].  *)
(***************************************************************************)
ParseFail == [ok |-> FALSE]

RECURSIVE SkipWs(_, _)
SkipWs(txt, i) ==
    IF i <= Len(txt) /\ txt[i] \in WhiteSpace THEN SkipWs(txt, i + 1) ELSE i

\* Defining a property of an object under construction: a repeated key keeps
\* its first position and takes the last value.
SetKey(ks, vs, k, v) ==
    IF \E j \in 1..Len(ks) : ks[j] = k
    THEN [keys |-> ks,
          vals |-> [j \in 1..Len(vs) |-> IF ks[j] = k THEN v ELSE vs[j]]]
    ELSE [keys |-> Append(ks, k), vals |-> Append(vs, v)]

RECURSIVE ParseValue(_, _)
RECURSIVE ParseElements(_, _, _)
RECURSIVE ParseMembers(_, _, _, _)

ParseValue(txt, i) ==
    LET j == SkipWs(txt, i)
    IN  IF j > Len(txt) THEN ParseFail
        ELSE LET c == txt[j]
             IN  CASE c = "null" -> [ok |-> TRUE, val |-> Null, next |-> j + 1]
                   [] c \in DOMAIN NumberToken ->
                        [ok |-> TRUE, val |-> Num(NumberToken[c]), next |-> j + 1]
                   [] c \in DOMAIN StringToken ->
                        [ok |-> TRUE, val |-> Str(StringToken[c].s), next |-> j + 1]
                   [] c = "[" ->
                        LET k == SkipWs(txt, j + 1)
                        IN  IF k <= Len(txt) /\ txt[k] = "]"
                            THEN [ok |-> TRUE, val |-> Arr(<<>>), next |-> k + 1]
                            ELSE ParseElements(txt, j + 1, <<>>)
                   [] c = "{" ->
                        LET k == SkipWs(txt, j + 1)
                        IN  IF k <= Len(txt) /\ txt[k] = "}"
                            THEN [ok |-> TRUE, val |-> Obj(<<>>, <<>>), next |-> k + 1]
                            ELSE ParseMembers(txt, j + 1, <<>>, <<>>)
                   [] OTHER -> ParseFail

ParseElements(txt, i, acc) ==
    LET v == ParseValue(txt, i)
    IN  IF ~v.ok THEN ParseFail
        ELSE LET k == SkipWs(txt, v.next)
             IN  IF k > Len(txt) THEN ParseFail
                 ELSE IF txt[k] = "," THEN ParseElements(txt, k + 1, Append(acc, v.val))
                 ELSE IF txt[k] = "]"
                      THEN [ok |-> TRUE, val |-> Arr(Append(acc, v.val)), next |-> k + 1]
                 ELSE ParseFail

ParseMembers(txt, i, ks, vs) ==
    LET j == SkipWs(txt, i)
    IN  IF j > Len(txt) \/ txt[j] \notin DOMAIN StringToken THEN ParseFail
        ELSE LET c == SkipWs(txt, j + 1)
             IN  IF c > Len(txt) \/ txt[c] # ":" THEN ParseFail
                 ELSE LET v == ParseValue(txt, c + 1)
                      IN  IF ~v.ok THEN ParseFail
                          ELSE LET k == SkipWs(txt, v.next)
                                   kv == SetKey(ks, vs, StringToken[txt[j]].s, v.val)
                               IN  IF k > Len(txt) THEN ParseFail
                                   ELSE IF txt[k] = ","
                                        THEN ParseMembers(txt, k + 1, kv.keys, kv.vals)
                                   ELSE IF txt[k] = "}"
                                        THEN [ok |-> TRUE, val |-> Obj(kv.keys, kv.vals),
                                              next |-> k + 1]
                                   ELSE ParseFail

JSONparse(txt) ==
    LET v == ParseValue(txt, 1)
    IN  IF v.ok /\ SkipWs(txt, v.next) > Len(txt)
        THEN [ok |-> TRUE, val |-> v.val]
        ELSE ParseFail

(***************************************************************************)
(* The fence stripping of the reply text:                                  *)
(*   text.replace(/^TTTjson\n/, "").replace(/\nTTT$/, "")   (T a backtick) *)
(* Neither pattern carries the m flag: ^ is the start of the text and $    *)
(* its very end.                                                           *)
(***************************************************************************)
\* The backtick character (U+0060), which a TLA+ string cannot hold.
Tick == "<backtick>"

OpenFence == <<Tick, Tick, Tick, "j", "s", "o", "n", "\n">>
CloseFence == <<"\n", Tick, Tick, Tick>>

StartsWith(txt, pre) ==
    Len(txt) >= Len(pre) /\ SubSeq(txt, 1, Len(pre)) = pre

EndsWith(txt, suf) ==
    Len(txt) >= Len(suf) /\ SubSeq(txt, Len(txt) - Len(suf) + 1, Len(txt)) = suf

\* StripOpen with the pattern /^TTT\n/, which leaves out the language tag.
StripOpenNoLanguage(txt) ==
    IF StartsWith(txt, <<Tick, Tick, Tick, "\n">>) THEN SubSeq(txt, 5, Len(txt)) ELSE txt

StripOpen(txt) ==
    IF StartsWith(txt, OpenFence) THEN SubSeq(txt, Len(OpenFence) + 1, Len(txt)) ELSE txt

StripClose(txt) ==
    IF EndsWith(txt, CloseFence) THEN SubSeq(txt, 1, Len(txt) - Len(CloseFence)) ELSE txt

CleanResponse(txt) == StripClose(StripOpen(txt))

(***************************************************************************)
(* The JavaScript operations the reply post-processing performs on the     *)
(* parsed value.  An operation that can throw yields [thrown |-> TRUE,     *)
(* message |-> m] or [thrown |-> FALSE, val |-> v].                        *)
(***************************************************************************)
Throw(m) == [thrown |-> TRUE, message |-> m]
Return(v) == [thrown |-> FALSE, val |-> v]

HttpErrorMessage == "API call failed: <statusText>"
SyntaxErrorMessage == "SyntaxError: not valid JSON"
TypeErrorMessage == "TypeError: cannot read properties"
NotAFunctionMessage == "TypeError: forEach is not a function"

\* v[key] for a string key
GetProp(v, key) ==
    CASE v.t \in {"null", "undefined"} -> Throw(TypeErrorMessage)
      [] v.t = "object" ->
            IF \E j \in 1..Len(v.keys) : v.keys[j] = key
            THEN Return(v.vals[CHOOSE j \in 1..Len(v.keys) : v.keys[j] = key])
            ELSE Return(Undefined)
      [] v.t = "array" ->
            IF key = "length" THEN Return(Num(Len(v.items))) ELSE Return(Undefined)
      [] v.t = "string" ->
            IF key = "length" THEN Return(Num(StrLength(v.s))) ELSE Return(Undefined)
      [] OTHER -> Return(Undefined)

\* v > 0: the operand is converted to a number; undefined, an object and every
\* string of the texts but the empty one convert to NaN, null and "" to 0, and
\* an array converts as its elements joined by commas do.
RECURSIVE GreaterThanZero(_)
GreaterThanZero(v) ==
    CASE v.t = "number" -> v.n > 0
      [] v.t = "array" -> Len(v.items) = 1 /\ GreaterThanZero(v.items[1])
      [] OTHER -> FALSE

\* arr.forEach(x => console.log(x.name)): the callback reads .name of every
\* element; only an array has forEach.
ForEachName(v) ==
    IF v.t # "array" THEN Throw(NotAFunctionMessage)
    ELSE IF \E j \in 1..Len(v.items) : GetProp(v.items[j], "name").thrown
         THEN Throw(TypeErrorMessage)
         ELSE Return(Undefined)

\* LogOperations with optional chaining, analysis[field]?.length: a missing
\* list is passed over instead of throwing.
LogOperationsOptional(analysis, field) ==
    LET list == GetProp(analysis, field)
    IN  IF list.thrown THEN list
        ELSE IF list.val.t \in {"undefined", "null"} THEN Return(Undefined)
        ELSE LET n == GetProp(list.val, "length")
             IN  IF GreaterThanZero(n.val) /\ ForEachName(list.val).thrown
                 THEN ForEachName(list.val)
                 ELSE n

\* if (analysis[field].length > 0) { analysis[field].forEach(...) }, yielding
\* analysis[field].length
LogOperations(analysis, field) ==
    LET list == GetProp(analysis, field)
    IN  IF list.thrown THEN list
        ELSE LET n == GetProp(list.val, "length")
             IN  IF n.thrown THEN n
                 ELSE IF GreaterThanZero(n.val) /\ ForEachName(list.val).thrown
                      THEN ForEachName(list.val)
                      ELSE n

(***************************************************************************)
(* The outcomes of one HTTP exchange with the remote service.              *)
(***************************************************************************)
Non2xx == [kind |-> "non2xx"]
BadBody == [kind |-> "badbody"]          \* response.json() rejects
NoChoices == [kind |-> "nochoices"]      \* data.choices is missing
NoContent == [kind |-> "nocontent"]      \* choices[0].message.content is missing
Content(txt) == [kind |-> "content", text |-> txt]

\* generateContent, up to the object holding the text() closure
GenerateContent(outcome) ==
    CASE outcome.kind = "non2xx" -> Throw(HttpErrorMessage)
      [] outcome.kind = "badbody" -> Throw(SyntaxErrorMessage)
      [] OTHER -> Return(outcome)

\* response.text(): data.choices[0].message.content
ResponseText(outcome) ==
    CASE outcome.kind = "nochoices" -> Throw(TypeErrorMessage)
      [] outcome.kind = "nocontent" -> Return(Undefined)
      [] OTHER -> Return([t |-> "text", chars |-> outcome.text])

\* The try block up to JSON.parse: the cleaned reply, parsed.
ParseReply(outcome) ==
    LET g == GenerateContent(outcome)
    IN  IF g.thrown THEN g
        ELSE LET txt == ResponseText(outcome)
             IN  IF txt.thrown THEN txt
                 ELSE IF txt.val.t = "undefined" THEN Throw(TypeErrorMessage)
                 ELSE LET parsed == JSONparse(CleanResponse(txt.val.chars))
                      IN  IF parsed.ok THEN Return(parsed.val)
                          ELSE Throw(SyntaxErrorMessage)

\* AnalyzeReply with the two counts taken from each other's list.
AnalyzeReplySwappedCounts(pageId, outcome) ==
    LET parsed == ParseReply(outcome)
    IN  IF parsed.thrown THEN [page |-> pageId, error |-> Str(parsed.message)]
        ELSE LET q == LogOperations(parsed.val, "queries")
             IN  IF q.thrown THEN [page |-> pageId, error |-> Str(q.message)]
                 ELSE LET m == LogOperations(parsed.val, "mutations")
                      IN  IF m.thrown THEN [page |-> pageId, error |-> Str(m.message)]
                          ELSE [page |-> pageId, analysis |-> parsed.val,
                                queryCount |-> m.val, mutationCount |-> q.val]

\* The try/catch of analyzePageGraphQL: the result record for the item
\* identified by pageId.
AnalyzeReply(pageId, outcome) ==
    LET parsed == ParseReply(outcome)
    IN  IF parsed.thrown THEN [page |-> pageId, error |-> Str(parsed.message)]
        ELSE LET q == LogOperations(parsed.val, "queries")
             IN  IF q.thrown THEN [page |-> pageId, error |-> Str(q.message)]
                 ELSE LET m == LogOperations(parsed.val, "mutations")
                      IN  IF m.thrown THEN [page |-> pageId, error |-> Str(m.message)]
                          ELSE [page |-> pageId, analysis |-> parsed.val,
                                queryCount |-> q.val, mutationCount |-> m.val]

(***************************************************************************)
(* File names and paths.  A path is the sequence of its segments; a name   *)
(* is a string, and NameChars gives its characters.                        *)
(***************************************************************************)
NameChars ==
    [n \in {"a.js", "a.jsx", "b.ts", "b.tsx", "c.ts", "notes.md", "x.json", "js",
            "sock.js", "d.js", "sub", "home", "about", "9", "10", "007", "..",
            "src", "components", "pages", "repo_to_analyze", "app", "util.ts",
            "Home.jsx"} |->
        CASE n = "a.js" -> <<"a", ".", "j", "s">>
          [] n = "a.jsx" -> <<"a", ".", "j", "s", "x">>
          [] n = "b.ts" -> <<"b", ".", "t", "s">>
          [] n = "b.tsx" -> <<"b", ".", "t", "s", "x">>
          [] n = "c.ts" -> <<"c", ".", "t", "s">>
          [] n = "notes.md" -> <<"n", "o", "t", "e", "s", ".", "m", "d">>
          [] n = "x.json" -> <<"x", ".", "j", "s", "o", "n">>
          [] n = "js" -> <<"j", "s">>
          [] n = "sock.js" -> <<"s", "o", "c", "k", ".", "j", "s">>
          [] n = "d.js" -> <<"d", ".", "j", "s">>
          [] n = "sub" -> <<"s", "u", "b">>
          [] n = "home" -> <<"h", "o", "m", "e">>
          [] n = "about" -> <<"a", "b", "o", "u", "t">>
          [] n = "9" -> <<"9">>
          [] n = "10" -> <<"1", "0">>
          [] n = "007" -> <<"0", "0", "7">>
          [] n = ".." -> <<".", ".">>
          [] n = "src" -> <<"s", "r", "c">>
          [] n = "components" -> <<"c", "o", "m", "p", "o", "n", "e", "n", "t", "s">>
          [] n = "pages" -> <<"p", "a", "g", "e", "s">>
          [] n = "repo_to_analyze" ->
                <<"r", "e", "p", "o", "_", "t", "o", "_", "a", "n", "a", "l", "y", "z", "e">>
          [] n = "app" -> <<"a", "p", "p">>
          [] n = "util.ts" -> <<"u", "t", "i", "l", ".", "t", "s">>
          [] n = "Home.jsx" -> <<"H", "o", "m", "e", ".", "j", "s", "x">>]

\* /\.(js|jsx|ts|tsx)$/.test(name)
Extensions == {<<".", "j", "s">>, <<".", "j", "s", "x">>, <<".", "t", "s">>,
               <<".", "t", "s", "x">>}

HasSourceExtension(name) == \E ext \in Extensions : EndsWith(NameChars[name], ext)

\* content.includes(marker)
Includes(txt, marker) ==
    \E i \in 1..(Len(txt) - Len(marker) + 1) : SubSeq(txt, i, i + Len(marker) - 1) = marker

GqlMarker == <<"g", "q", "l", Tick>>
GraphqlMarker == <<"g", "r", "a", "p", "h", "q", "l", Tick>>

\* HasMarker looking for the first marker only.
HasMarkerGqlOnly(content) == Includes(content, GqlMarker)

HasMarker(content) == Includes(content, GqlMarker) \/ Includes(content, GraphqlMarker)

(***************************************************************************)
(* The directory tree.  A directory entry is what readdir, called with     *)
(* withFileTypes, reports: a name and a type, here with the directory's    *)
(* own listing or the file's content, and whether reading it succeeds.     *)
(***************************************************************************)
DirEntry(n, es, r) == [name |-> n, kind |-> "dir", entries |-> es, readable |-> r]
FileEntry(n, c, r) == [name |-> n, kind |-> "file", content |-> c, readable |-> r]
OtherEntry(n) == [name |-> n, kind |-> "other"]
\* a symbolic link, and the path of the directory it points at
LinkEntry(n, to) == [name |-> n, kind |-> "symlink", target |-> to]

\* entry.isDirectory() with the type taken from the link's target, as a stat
\* of the path reports it.
isDirectoryFollowingLinks(e) == e.kind \in {"dir", "symlink"}

\* entry.isDirectory() and entry.isFile() of a readdir entry: the type of the
\* entry itself, which for a symbolic link is neither.
isDirectory(e) == e.kind = "dir"
isFile(e) == e.kind = "file"

\* File contents: with each marker, with a marker inside other text, and
\* without one (gql not followed by a backtick, graphql( ... ), nothing).
GqlContent == <<"x", "=", "g", "q", "l", Tick, "q", Tick>>
GraphqlContent == <<"g", "r", "a", "p", "h", "q", "l", Tick, "q", Tick>>
CallContent == <<"g", "q", "l", "(", "g", "r", "a", "p", "h", "q", "l", ")">>
EmptyContent == <<>>

(***************************************************************************)
(* path.relative and the grouper.                                          *)
(***************************************************************************)
RECURSIVE CommonPrefixLen(_, _, _)
CommonPrefixLen(a, b, k) ==
    IF k < Len(a) /\ k < Len(b) /\ a[k + 1] = b[k + 1]
    THEN CommonPrefixLen(a, b, k + 1)
    ELSE k

\* path.relative(from, to), as the sequence of its segments
Relative(from, to) ==
    LET k == CommonPrefixLen(from, to, 0)
    IN  [i \in 1..(Len(from) - k) |-> ".."] \o SubSeq(to, k + 1, Len(to))

\* TopLevelFolder taking the last segment of the relative path.
TopLevelFolderLast(pagesPath, file) ==
    LET rel == Relative(pagesPath, file)
    IN  IF Len(rel) = 0 THEN "" ELSE rel[Len(rel)]

\* relativePath.split(path.sep)[0]
TopLevelFolder(pagesPath, file) ==
    LET rel == Relative(pagesPath, file)
    IN  IF Len(rel) = 0 THEN "" ELSE rel[1]

\* The Map the grouper fills, as its keys in insertion order and their lists.
EmptyMap == [keys |-> <<>>, vals |-> <<>>]

\* MapPush that sets a new key to an empty list and leaves it at that.
MapPushAfterFirst(m, k, file) ==
    IF \E j \in 1..Len(m.keys) : m.keys[j] = k
    THEN [keys |-> m.keys,
          vals |-> [j \in 1..Len(m.vals) |->
                      IF m.keys[j] = k THEN Append(m.vals[j], file) ELSE m.vals[j]]]
    ELSE [keys |-> Append(m.keys, k), vals |-> Append(m.vals, <<>>)]

\* MapPush putting the file at the front of its key's list.
MapPushFront(m, k, file) ==
    IF \E j \in 1..Len(m.keys) : m.keys[j] = k
    THEN [keys |-> m.keys,
          vals |-> [j \in 1..Len(m.vals) |->
                      IF m.keys[j] = k THEN <<file>> \o m.vals[j] ELSE m.vals[j]]]
    ELSE [keys |-> Append(m.keys, k), vals |-> Append(m.vals, <<file>>)]

MapPush(m, k, file) ==
    IF \E j \in 1..Len(m.keys) : m.keys[j] = k
    THEN [keys |-> m.keys,
          vals |-> [j \in 1..Len(m.vals) |->
                      IF m.keys[j] = k THEN Append(m.vals[j], file) ELSE m.vals[j]]]
    ELSE [keys |-> Append(m.keys, k), vals |-> Append(m.vals, <<file>>)]

RECURSIVE GroupInto(_, _, _, _)
GroupInto(m, fs, pagesPath, i) ==
    IF i > Len(fs) THEN m
    ELSE GroupInto(MapPush(m, TopLevelFolder(pagesPath, fs[i]), fs[i]), fs, pagesPath, i + 1)

\* A property key that is a canonical array index (the decimal numeral of an
\* integer below 2^32 - 1, without a leading zero) is enumerated before the
\* other keys, in ascending numeric order.  Every numeral of at most nine
\* digits is below 2^32 - 1; the names of the model have no longer numeral.
Digits == [c \in {"0", "1", "2", "3", "4", "5", "6", "7", "8", "9"} |->
    CASE c = "0" -> 0 [] c = "1" -> 1 [] c = "2" -> 2 [] c = "3" -> 3 [] c = "4" -> 4
      [] c = "5" -> 5 [] c = "6" -> 6 [] c = "7" -> 7 [] c = "8" -> 8 [] c = "9" -> 9]

RECURSIVE NumeralValue(_, _)
NumeralValue(cs, k) ==
    IF k = 0 THEN 0 ELSE 10 * NumeralValue(cs, k - 1) + Digits[cs[k]]

IsArrayIndex(key) ==
    LET cs == NameChars[key]
    IN  /\ Len(cs) > 0
        /\ Len(cs) <= 9
        /\ \A i \in 1..Len(cs) : cs[i] \in DOMAIN Digits
        /\ (Len(cs) > 1 => cs[1] # "0")

IndexValue(key) == NumeralValue(NameChars[key], Len(NameChars[key]))

\* The positions of m.keys in the order the object's own keys are enumerated.
RECURSIVE AscendingIndexKeys(_, _)
AscendingIndexKeys(m, left) ==
    IF left = {} THEN <<>>
    ELSE LET j == CHOOSE a \in left :
                    \A b \in left : IndexValue(m.keys[a]) <= IndexValue(m.keys[b])
         IN  <<j>> \o AscendingIndexKeys(m, left \ {j})

RECURSIVE InsertionOrder(_, _, _)
InsertionOrder(m, keep, i) ==
    IF i > Len(m.keys) THEN <<>>
    ELSE (IF i \in keep THEN <<i>> ELSE <<>>) \o InsertionOrder(m, keep, i + 1)

OwnKeyOrder(m) ==
    LET idx == {j \in 1..Len(m.keys) : IsArrayIndex(m.keys[j])}
    IN  AscendingIndexKeys(m, idx) \o InsertionOrder(m, (1..Len(m.keys)) \ idx, 1)

\* Object.fromEntries(map): the same entries, enumerated as an object's are.
ObjectFromEntries(m) ==
    LET order == OwnKeyOrder(m)
    IN  [keys |-> [i \in 1..Len(order) |-> m.keys[order[i]]],
         vals |-> [i \in 1..Len(order) |-> m.vals[order[i]]]]

groupFilesByPagesFolder(fs, pagesPath) ==
    ObjectFromEntries(GroupInto(EmptyMap, fs, pagesPath, 1))

(***************************************************************************)
(* The inputs of the runs.                                                 *)
(***************************************************************************)
MaxGroups == 3      \* groups of a grouped run
MaxPages == 2       \* pages the page inventory lists
MaxDepth == 2       \* directory levels below the scanned root
MaxStack == 7       \* processDirectory calls in progress at once (no tree here is as deep)
MaxFiles == 3       \* files of a list handed to the grouper alone
MaxElems == 2       \* elements of an array of a reply

\* main: repoPath = ./repo_to_analyze/<argument>, and the pages root below it
RepoPath == <<"repo_to_analyze", "app">>
PagesPath == RepoPath \o <<"src", "components", "pages">>

GroupNames == {"home", "9", "10"}

DistinctSeqs(S, n) ==
    {q \in UNION {[1..k -> S] : k \in 0..n} : \A i, j \in DOMAIN q : i # j => q[i] # q[j]}

PageDir(n) == DirEntry(n, <<FileEntry("Home.jsx", GqlContent, TRUE)>>, TRUE)

\* A page folder with a second matching file, in a subfolder.
NestedPageDir(n) ==
    DirEntry(n, <<FileEntry("Home.jsx", GqlContent, TRUE),
                  DirEntry("sub", <<FileEntry("a.js", GraphqlContent, TRUE)>>, TRUE)>>, TRUE)

\* The repository of a grouped run: the page folders in the order readdir
\* lists them, and beside them nothing, a matching file outside the pages
\* root, a matching file directly in the pages root, a page folder whose name
\* has a leading zero, a matching file that cannot be read, or a root that
\* cannot be listed; or the first page folder holds a second file, nested.
RunTree(groups, extra) ==
    LET dirs == [i \in 1..Len(groups) |->
                    IF extra = "nested" /\ i = 1 THEN NestedPageDir(groups[i])
                    ELSE PageDir(groups[i])]
        inPages == CASE extra = "toplevel" ->
                          <<FileEntry("a.js", GraphqlContent, TRUE)>> \o dirs
                     [] extra = "leadingzero" -> dirs \o <<PageDir("007")>>
                     [] OTHER -> dirs
        pages == DirEntry("pages", inPages, TRUE)
        components == DirEntry("components", <<pages>>, TRUE)
        inSrc == CASE extra = "outside" ->
                        <<components, FileEntry("util.ts", GraphqlContent, TRUE)>>
                   [] extra = "unreadable" ->
                        <<components, FileEntry("util.ts", GqlContent, FALSE)>>
                   [] OTHER -> <<components>>
    IN  DirEntry("app", <<DirEntry("src", inSrc, TRUE)>>, extra # "lockedroot")

\* The inputs of a grouped run: the repository, and the files of it that can
\* no longer be read once the scan is over (none, or the first page folder's).
RunInputs ==
    {[tree |-> RunTree(g, e), gone |-> {}] :
        g \in DistinctSeqs(GroupNames, MaxGroups), e \in {"none", "unreadable", "lockedroot"}}
    \cup {[tree |-> RunTree(g, "none"), gone |-> {PagesPath \o <<g[1], "Home.jsx">>}] :
        g \in DistinctSeqs(GroupNames, MaxGroups) \ {<<>>}}
    \cup {[tree |-> RunTree(g, e), gone |-> {}] :
        g \in DistinctSeqs(GroupNames, MaxGroups - 1),
        e \in {"outside", "toplevel", "leadingzero"}}
    \cup {[tree |-> RunTree(g, "nested"), gone |-> {}] :
        g \in DistinctSeqs(GroupNames, MaxGroups - 1) \ {<<>>}}

\* The listings of the trees of a scan alone.
Listings ==
    { <<>>,
      <<FileEntry("a.js", GqlContent, TRUE)>>,
      <<FileEntry("b.tsx", GraphqlContent, TRUE), FileEntry("c.ts", CallContent, TRUE)>>,
      <<FileEntry("notes.md", GqlContent, FALSE), FileEntry("a.jsx", GraphqlContent, TRUE),
        OtherEntry("sock.js")>>,
      <<FileEntry("x.json", GqlContent, TRUE), FileEntry("js", GqlContent, TRUE),
        FileEntry("b.ts", GqlContent, TRUE), FileEntry("c.ts", EmptyContent, TRUE)>>,
      <<FileEntry("a.js", GqlContent, FALSE)>>,
      <<LinkEntry("loop", RepoPath), FileEntry("a.js", GqlContent, TRUE)>> }

\* The last listing holds a symbolic link to the scanned root, an ancestor of
\* every directory.  A directory holds one of the listings and at most one subdirectory: d.js,
\* listed first, or sub, listed last; a lowest directory may hold a
\* subdirectory that cannot be read.
RECURSIVE ScanListings(_)
ScanListings(d) ==
    IF d = 0 THEN Listings \cup {<<DirEntry("sub", <<>>, FALSE)>>}
    ELSE Listings
         \cup {<<DirEntry("d.js", sub, TRUE)>> \o l : l \in Listings, sub \in ScanListings(d - 1)}
         \cup {l \o <<DirEntry("sub", sub, TRUE)>> : l \in Listings, sub \in ScanListings(d - 1)}

ScanTrees == {DirEntry("app", l, TRUE) : l \in ScanListings(MaxDepth)}

NoTree == DirEntry("app", <<>>, TRUE)

\* Reply texts.
Summary(q, m) == <<"{", "\"queries\"", ":">> \o q \o <<",", "\n", "\"mutations\"", ":">>
                    \o m \o <<"}">>
Named(n) == <<"{", "\"name\"", ":", n, "}">>
Fenced(txt) == OpenFence \o txt \o CloseFence

DuplicateReply == Summary(<<"[">> \o Named("\"A\"") \o <<",">> \o Named("\"A\"") \o <<"]">>,
                          <<"[", "]">>)
FencedReply == Fenced(Summary(<<"[", "]">>, <<"[">> \o Named("\"B\"") \o <<"]">>))
NullElementReply == Summary(<<"[", "null", "]">>, <<"[", "]">>)
NonArrayReply == Summary(<<"{", "}">>, <<"1">>)
NoFieldsReply == <<"{", "}">>
ProseReply == <<"I", " ", "c", "a", "n", "n", "o", "t">>

ItemOutcomes ==
    {Non2xx, NoContent} \cup
    {Content(txt) : txt \in {DuplicateReply, FencedReply, NullElementReply, NonArrayReply,
                             NoFieldsReply, ProseReply}}

\* The elements a page inventory can hold: two page objects, one without a
\* path, a string, and null.
PageElements == {<<"{", "\"path\"", ":", "\"/a\"", "}">>,
                 <<"{", "\"name\"", ":", "\"A\"", "}">>,
                 <<"\"A\"">>,
                 <<"null">>}

RECURSIVE JoinElements(_, _)
JoinElements(es, k) ==
    IF k = 0 THEN <<>>
    ELSE IF k = 1 THEN es[1]
    ELSE JoinElements(es, k - 1) \o <<",">> \o es[k]

ArrayText(es) == <<"[">> \o JoinElements(es, Len(es)) \o <<"]">>

InventoryOutcomes ==
    {Non2xx, NoChoices, BadBody, Content(ProseReply), Content(NoFieldsReply),
     Content(Fenced(ArrayText(<<>>)))}
    \cup {Content(ArrayText(es)) : es \in UNION {[1..k -> PageElements] : k \in 0..MaxPages}}

(***************************************************************************)
(* The state of a run.                                                     *)
(***************************************************************************)
VARIABLES
    entry,       \* "main" (grouped files), "index" (page discovery), "scan"
    pc,          \* where the run is, or was when the process ended
    tree,        \* the scanned directory
    gone,        \* the files that cannot be read once the scan is over
    stack,       \* the processDirectory calls in progress, innermost last
    visited,     \* the directories readdir listed, in order
    files,       \* findGraphQLFiles' result list
    grouped,     \* the object groupFilesByPagesFolder returned
    items,       \* what the analysis loop iterates: group names, or pages
    idx,         \* the loop's position in items
    results,     \* the result records pushed so far
    replies,     \* the outcome of each per-item remote call, in call order
    inventory,   \* the outcome of the page-inventory call, once it arrived
    log,         \* remote calls started, delays started and writes, in order
    output,      \* the files written
    exitStatus,  \* "running", or the exit status of the process
    printed,     \* whether an error was printed to the console
    swallowed,   \* whether getFilesContent logged and skipped a read failure
    parseResult  \* what the post-processing of a reply alone produced

vars == <<entry, pc, tree, gone, stack, visited, files, grouped, items, idx, results, replies,
          inventory, log,
          output, exitStatus, printed, swallowed, parseResult>>

scanVars == <<stack, visited, files>>
loopVars == <<items, idx, results, replies, inventory, parseResult>>

InitState(e, t, later, rs) ==
    /\ entry = e
    /\ pc = "start"
    /\ tree = t
    /\ gone = later
    /\ stack = <<>>
    /\ visited = <<>>
    /\ files = <<>>
    /\ grouped = EmptyMap
    /\ items = <<>>
    /\ idx = 1
    /\ results = <<>>
    /\ replies = rs
    /\ inventory = [kind |-> "none"]
    /\ log = <<>>
    /\ output = <<>>
    /\ exitStatus = "running"
    /\ printed = FALSE
    /\ swallowed = FALSE
    /\ parseResult = Return(Undefined)

InitWith(e, t, later) == InitState(e, t, later, <<>>)

Init ==
    \/ \E in \in RunInputs : InitWith("main", in.tree, in.gone)
    \/ InitWith("index", NoTree, {})

\* The process ends with this status, having printed an error or not.
Exit(status, err) ==
    /\ exitStatus' = status
    /\ printed' = err

Running == exitStatus = "running"
Ended == exitStatus # "running"

(***************************************************************************)
(* The scanner: findGraphQLFiles and its processDirectory.                 *)
(***************************************************************************)
\* A rejection reaches the top of main: main(...).catch(console.error) prints
\* it, and the process then ends by itself, with status 0.
MainRejects == Exit("0", TRUE)

\* An exception leaves findGraphQLFiles.  scanForGraphQLTags logs and
\* rethrows it: the scan's caller gets the rejection, which in main is the
\* top level.
ScanThrows ==
    /\ IF entry = "main" THEN MainRejects /\ UNCHANGED pc
       ELSE pc' = "thrown" /\ UNCHANGED <<exitStatus, printed>>
    /\ UNCHANGED <<entry, tree, gone, scanVars, grouped, loopVars, log, output, swallowed>>

\* findGraphQLFiles(dirPath) calls processDirectory(dirPath), which reads it.
ScanBegin ==
    /\ Running
    /\ pc = "start"
    /\ entry \in {"main", "scan"}
    /\ IF tree.readable
       THEN /\ stack' = <<[path |-> RepoPath, entries |-> tree.entries, i |-> 1]>>
            /\ visited' = <<RepoPath>>
            /\ pc' = "scan"
            /\ UNCHANGED <<entry, tree, gone, files, grouped, loopVars, log, output,
                           exitStatus, printed, swallowed>>
       ELSE ScanThrows

Top == stack[Len(stack)]

\* The directory at a path below the scanned root, found by name level by
\* level.
RECURSIVE DirectoryAt(_, _, _)
DirectoryAt(dir, path, k) ==
    IF k > Len(path) THEN dir
    ELSE LET j == CHOOSE j \in DOMAIN dir.entries : dir.entries[j].name = path[k]
         IN  DirectoryAt(dir.entries[j], path, k + 1)

\* What readdir(fullPath) lists for an entry: the directory itself, or for a
\* symbolic link the directory the link resolves to.
Directory(e) ==
    IF e.kind = "symlink" THEN DirectoryAt(tree, e.target, Len(RepoPath) + 1) ELSE e
Advanced == [stack EXCEPT ![Len(stack)].i = @ + 1]

\* One iteration of for (const entry of entries).  The recursion is followed
\* down to MaxStack calls in progress.
ScanEntry ==
    /\ Running
    /\ pc = "scan"
    /\ Top.i <= Len(Top.entries)
    /\ isDirectory(Top.entries[Top.i]) => Len(stack) < MaxStack
    /\ LET e == Top.entries[Top.i]
           fullPath == Append(Top.path, e.name)
       IN  CASE isDirectory(e) ->
                    IF Directory(e).readable
                    THEN /\ stack' = Append(Advanced,
                                [path |-> fullPath, entries |-> Directory(e).entries, i |-> 1])
                         /\ visited' = Append(visited, fullPath)
                         /\ UNCHANGED <<entry, pc, tree, gone, files, grouped, loopVars, log,
                                        output, exitStatus, printed, swallowed>>
                    ELSE ScanThrows
             [] ~isDirectory(e) /\ isFile(e) /\ HasSourceExtension(e.name) ->
                    IF e.readable
                    THEN /\ stack' = Advanced
                         /\ files' = IF HasMarker(e.content)
                                     THEN Append(files, fullPath) ELSE files
                         /\ UNCHANGED <<entry, pc, tree, gone, visited, grouped, loopVars, log,
                                        output, exitStatus, printed, swallowed>>
                    ELSE ScanThrows
             [] OTHER ->
                    /\ stack' = Advanced
                    /\ UNCHANGED <<entry, pc, tree, gone, visited, files, grouped, loopVars,
                                   log, output, exitStatus, printed, swallowed>>

\* A processDirectory call has listed all its entries and returns.  When it
\* is the outermost one, findGraphQLFiles returns the list: a scan alone ends
\* there, and main's scanForGraphQLTags goes on to group it and
\* analyzeGroupedFiles starts on the groups.
ScanReturn ==
    /\ Running
    /\ pc = "scan"
    /\ Top.i > Len(Top.entries)
    /\ stack' = SubSeq(stack, 1, Len(stack) - 1)
    /\ IF Len(stack) > 1
       THEN UNCHANGED <<pc, grouped, items>>
       ELSE IF entry = "scan"
            THEN /\ pc' = "scanned"
                 /\ UNCHANGED <<grouped, items>>
            ELSE LET g == groupFilesByPagesFolder(files, PagesPath)
                 IN  /\ grouped' = g
                     /\ items' = [i \in 1..Len(g.keys) |-> Str(g.keys[i])]
                     /\ pc' = "loop"
    /\ UNCHANGED <<entry, tree, gone, visited, files, idx, results, replies, log, output,
                   exitStatus, printed, swallowed, parseResult, inventory>>

(***************************************************************************)
(* The page-discovery run up to its loop: runAnalysis and analyzePages.    *)
(***************************************************************************)
\* runAnalysis' catch without its process.exit(1).
RunAnalysisCatchesNoExit == Exit("0", TRUE)

\* runAnalysis' catch: console.error, then process.exit(1).
RunAnalysisCatches == Exit("1", TRUE)

\* fs.readFile(filePath) of runAnalysis; on success analyzePages builds its
\* prompt and starts the page-inventory call.
ReadInput ==
    /\ Running
    /\ pc = "start"
    /\ entry = "index"
    /\ \E ok \in BOOLEAN :
         IF ok
         THEN /\ pc' = "inventory"
              /\ log' = Append(log, "call")
              /\ UNCHANGED <<exitStatus, printed>>
         ELSE RunAnalysisCatches /\ UNCHANGED <<pc, log>>
    /\ UNCHANGED <<entry, tree, gone, scanVars, grouped, loopVars, output, swallowed>>

\* pages.forEach(page => console.log(page.path, page.component, ...))
LogPages(pages) ==
    IF pages.t # "array" THEN Throw(NotAFunctionMessage)
    ELSE IF \E j \in 1..Len(pages.items) : GetProp(pages.items[j], "path").thrown
         THEN Throw(TypeErrorMessage)
         ELSE Return(pages)

\* The page-inventory reply arrives.  Whatever the try block of analyzePages
\* throws, its catch logs and rethrows, and runAnalysis catches it.
\* Otherwise the first delay starts, whatever the number of pages.
InventoryReturn ==
    /\ Running
    /\ pc = "inventory"
    /\ \E outcome \in InventoryOutcomes :
         /\ inventory' = outcome
         /\ LET parsed == ParseReply(outcome)
                pages == IF parsed.thrown THEN parsed ELSE LogPages(parsed.val)
            IN  IF pages.thrown
                THEN RunAnalysisCatches /\ UNCHANGED <<pc, items, log>>
                ELSE /\ items' = pages.val.items
                     /\ log' = Append(log, "delay")
                     /\ pc' = "firstdelay"
                     /\ UNCHANGED <<exitStatus, printed>>
    /\ UNCHANGED <<entry, tree, gone, scanVars, grouped, idx, results, replies, output,
                   swallowed, parseResult>>

\* await this.delay(60000) before the loop
FirstDelayDone ==
    /\ Running
    /\ pc = "firstdelay"
    /\ pc' = "loop"
    /\ UNCHANGED <<entry, tree, gone, scanVars, grouped, loopVars, log, output, exitStatus,
                   printed, swallowed>>

(***************************************************************************)
(* The analysis loop of analyzeGroupedFiles and of analyzePages.           *)
(***************************************************************************)
\* a === b for the element at position i and the one at position j: an object
\* or an array is equal to itself alone.
StrictEquals(xs, i, j) ==
    IF xs[i].t \in {"object", "array"} THEN i = j ELSE xs[i] = xs[j]

\* xs.indexOf(xs[i]), counting from 1
IndexOf(xs, i) == CHOOSE j \in 1..Len(xs) :
    /\ StrictEquals(xs, j, i)
    /\ \A k \in 1..(j - 1) : ~StrictEquals(xs, k, i)

\* DelayNeeded with the comparison off by one: <= length - 1.
DelayNeededOffByOne(xs, i) == IndexOf(xs, i) <= Len(xs)

\* Object.keys(groupedFiles).indexOf(pageName) < Object.keys(groupedFiles).length - 1
\* and pages.indexOf(page) < pages.length - 1
DelayNeeded(xs, i) == IndexOf(xs, i) < Len(xs)

\* The identifier the result record carries: the group name, or page.path.
PageId(e, item) == IF e = "main" THEN item ELSE GetProp(item, "path").val

\* getFilesContent(files): a file that cannot be read is logged and skipped.
getFilesContent(fs, unreadable) ==
    [skipped |-> \E i \in 1..Len(fs) : fs[i] \in unreadable]

\* The prompt is built before the try block: page.component in the
\* page-discovery run, the files' contents in the grouped run.
PromptThrows(e, item) == e = "index" /\ GetProp(item, "component").thrown

\* StartCall with the delay not awaited: the loop goes on to the next item
\* while the delay it started is still pending.
StartCallDelayNotAwaited ==
    /\ Running
    /\ pc \in {"loop", "delay"}
    /\ LET k == IF pc = "delay" THEN idx + 1 ELSE idx
       IN  /\ k <= Len(items)
           /\ IF PromptThrows(entry, items[k])
              THEN RunAnalysisCatches /\ UNCHANGED <<pc, log, swallowed, idx>>
              ELSE /\ pc' = "call"
                   /\ idx' = k
                   /\ log' = Append(log, "call")
                   /\ swallowed' = IF entry = "main"
                                   THEN swallowed \/ getFilesContent(grouped.vals[k], gone).skipped
                                   ELSE swallowed
                   /\ UNCHANGED <<exitStatus, printed>>
    /\ UNCHANGED <<entry, tree, gone, scanVars, grouped, items, results, replies, inventory,
                   parseResult, output>>

\* analyzePageGraphQL is called for the next item: the prompt is built
\* (getFilesContent logs and skips a file it cannot read) and the request is
\* sent.
StartCall ==
    /\ Running
    /\ pc = "loop"
    /\ idx <= Len(items)
    /\ IF PromptThrows(entry, items[idx])
       THEN RunAnalysisCatches /\ UNCHANGED <<pc, log, swallowed>>
       ELSE /\ pc' = "call"
            /\ log' = Append(log, "call")
            /\ swallowed' = IF entry = "main"
                            THEN swallowed \/ getFilesContent(grouped.vals[idx], gone).skipped
                            ELSE swallowed
            /\ UNCHANGED <<exitStatus, printed>>
    /\ UNCHANGED <<entry, tree, gone, scanVars, grouped, loopVars, output>>

\* The reply arrives: analyzePageGraphQL returns its record, the loop pushes
\* it and, when the item is not found at the last position, starts a delay.
CallReturn ==
    /\ Running
    /\ pc = "call"
    /\ \E outcome \in ItemOutcomes :
         /\ replies' = Append(replies, outcome)
         /\ results' = Append(results, AnalyzeReply(PageId(entry, items[idx]), outcome))
    /\ IF DelayNeeded(items, idx)
       THEN /\ pc' = "delay"
            /\ log' = Append(log, "delay")
            /\ idx' = idx
       ELSE /\ pc' = "loop"
            /\ idx' = idx + 1
            /\ log' = log
    /\ UNCHANGED <<entry, tree, gone, scanVars, grouped, items, output, exitStatus, printed,
                   swallowed, parseResult, inventory>>

DelayDone ==
    /\ Running
    /\ pc = "delay"
    /\ pc' = "loop"
    /\ idx' = idx + 1
    /\ UNCHANGED <<entry, tree, gone, scanVars, grouped, items, results, replies, log, output,
                   exitStatus, printed, swallowed, parseResult, inventory>>

(***************************************************************************)
(* The output file.                                                        *)
(***************************************************************************)
\* JSON.stringify leaves out a property whose value is undefined.
StringifyRecord(r) == [f \in {g \in DOMAIN r : r[g].t # "undefined"} |-> r[f]]

\* StringifyResults keeping only the records without an error.
HasNoError(r) == "error" \notin DOMAIN r
StringifyResultsWithoutErrors(rs) ==
    LET kept == SelectSeq(rs, HasNoError)
    IN  [i \in 1..Len(kept) |-> StringifyRecord(kept[i])]

StringifyResults(rs) == [i \in 1..Len(rs) |-> StringifyRecord(rs[i])]

\* What the entry point hands to JSON.stringify: runAnalysis the object
\* {pages, analysisResults}, main the array of results alone (held here in a
\* record of one field, so that both are read the same way).
OutputData(e, pages, rs) ==
    IF e = "main" THEN [analysisResults |-> StringifyResults(rs)]
    ELSE [pages |-> pages, analysisResults |-> StringifyResults(rs)]

\* The loop is over: the analysis returns and fs.writeFile is awaited.  When
\* it fails, runAnalysis catches the error and main rejects.
WriteFile ==
    /\ Running
    /\ pc = "loop"
    /\ idx > Len(items)
    /\ pc' = "write"
    /\ \E ok \in BOOLEAN :
         IF ok
         THEN /\ output' = Append(output, OutputData(entry, items, results))
              /\ log' = Append(log, "write")
              /\ Exit("0", FALSE)
         ELSE /\ UNCHANGED <<output, log>>
              /\ IF entry = "main" THEN MainRejects ELSE RunAnalysisCatches
    /\ UNCHANGED <<entry, tree, gone, scanVars, grouped, loopVars, swallowed>>

Next ==
    \/ ScanBegin
    \/ ScanEntry
    \/ ScanReturn
    \/ ReadInput
    \/ InventoryReturn
    \/ FirstDelayDone
    \/ StartCall
    \/ CallReturn
    \/ DelayDone
    \/ WriteFile

Spec == Init /\ [][Next]_vars

(***************************************************************************)
(* A scan alone: scanForGraphQLTags(folderPath), with no pages root.       *)
(***************************************************************************)
InitScan == \E t \in ScanTrees : InitWith("scan", t, {})

NextScan ==
    \/ ScanBegin
    \/ ScanEntry
    \/ ScanReturn

SpecScan == InitScan /\ [][NextScan]_vars

\* Every await of the scan settles (readdir and readFile resolve or reject),
\* and the event loop then runs the continuation: a step that can be taken is
\* eventually taken.
SpecScanFair == InitScan /\ [][NextScan]_vars /\ WF_vars(NextScan)

(***************************************************************************)
(* The post-processing of one reply alone.                                 *)
(***************************************************************************)
JsonAtoms == {<<"null">>, <<"1">>, <<"\"A\"">>, <<"{", "}">>}

\* Valid JSON texts, some with white space around them, and texts that are
\* not JSON.
JsonTexts ==
    {ArrayText(es) : es \in UNION {[1..k -> JsonAtoms] : k \in 0..MaxElems}}
    \cup JsonAtoms
    \cup {DuplicateReply, NonArrayReply, NullElementReply}
    \cup {<<"\n">> \o DuplicateReply, DuplicateReply \o <<"\n">>, <<" ", "[", " ", "]", " ">>}

OtherTexts == {ProseReply, <<"[", "1">>, <<"{", "\"name\"", "}">>, <<>>,
               <<"[", "]">> \o CloseFence \o OpenFence \o <<"[", "]">>}

Wraps == {"none", "fenced", "fencedNewline", "openOnly", "closeOnly", "noLanguage"}

Wrap(txt, w) ==
    CASE w = "fenced" -> OpenFence \o txt \o CloseFence
      [] w = "fencedNewline" -> OpenFence \o txt \o CloseFence \o <<"\n">>
      [] w = "openOnly" -> OpenFence \o txt
      [] w = "closeOnly" -> txt \o CloseFence
      [] w = "noLanguage" -> <<Tick, Tick, Tick, "\n">> \o txt \o CloseFence
      [] OTHER -> txt

InitParse ==
    \E txt \in JsonTexts \cup OtherTexts, w \in Wraps :
        InitState("parse", NoTree, {}, <<Content(Wrap(txt, w))>>)

\* The reply's text is cleaned and parsed.
PostProcess ==
    /\ pc = "start"
    /\ entry = "parse"
    /\ parseResult' = ParseReply(replies[1])
    /\ pc' = "parsed"
    /\ UNCHANGED <<entry, tree, gone, scanVars, grouped, items, idx, results, replies, log,
                   output, exitStatus, printed, swallowed, inventory>>

NextParse == PostProcess

SpecParse == InitParse /\ [][NextParse]_vars

(***************************************************************************)
(* The grouper alone: groupFilesByPagesFolder(files, pagesPath) on a file  *)
(* list, and again on the concatenation of the groups it returned.         *)
(***************************************************************************)
\* Paths below two page folders (one nested), below page folders with
\* integer-like names, directly in the pages root, and outside it.
FilePaths ==
    {PagesPath \o <<"home", "Home.jsx">>,
     PagesPath \o <<"home", "sub", "a.js">>,
     PagesPath \o <<"9", "Home.jsx">>,
     PagesPath \o <<"10", "Home.jsx">>,
     PagesPath \o <<"a.js">>,
     RepoPath \o <<"src", "util.ts">>,
     RepoPath \o <<"b.ts">>}

FileLists == UNION {[1..k -> FilePaths] : k \in 0..MaxFiles}

InitGroup == InitState("group", NoTree, {}, <<>>)

\* The caller's file list arrives.
TakeFiles ==
    /\ Running
    /\ entry = "group"
    /\ pc = "start"
    /\ files' \in FileLists
    /\ pc' = "listed"
    /\ UNCHANGED <<entry, tree, gone, stack, visited, grouped, loopVars, log, output,
                   exitStatus, printed, swallowed>>

\* groupFilesByPagesFolder(files, pagesPath) returns.
GroupFiles ==
    /\ Running
    /\ entry = "group"
    /\ pc = "listed"
    /\ grouped' = groupFilesByPagesFolder(files, PagesPath)
    /\ pc' = "grouped"
    /\ UNCHANGED <<entry, tree, gone, scanVars, loopVars, log, output, exitStatus,
                   printed, swallowed>>

\* The groups' lists, one after the other in the object's key order.
RECURSIVE Concat(_, _)
Concat(lists, k) == IF k = 0 THEN <<>> ELSE Concat(lists, k - 1) \o lists[k]

\* The returned groups are concatenated and grouped again.
Regroup ==
    /\ Running
    /\ entry = "group"
    /\ pc = "grouped"
    /\ files' = Concat(grouped.vals, Len(grouped.vals))
    /\ grouped' = groupFilesByPagesFolder(files', PagesPath)
    /\ pc' = "regrouped"
    /\ UNCHANGED <<entry, tree, gone, stack, visited, loopVars, log, output, exitStatus,
                   printed, swallowed>>

NextGroup == TakeFiles \/ GroupFiles \/ Regroup

SpecGroup == InitGroup /\ [][NextGroup]_vars

(***************************************************************************)
(* The claims.                                                             *)
(***************************************************************************)
Count(q, e) == Cardinality({i \in DOMAIN q : q[i] = e})

IsErrorRecord(r) == DOMAIN r = {"page", "error"}
IsSuccessRecord(r) == DOMAIN r = {"page", "analysis", "queryCount", "mutationCount"}

\* The identifier of the i-th item of the run: the i-th group's name, or the
\* path of the i-th page (undefined when the page has none).
ItemId(i) ==
    IF entry = "main" THEN Str(grouped.keys[i])
    ELSE IF items[i].t = "object" /\ \E j \in DOMAIN items[i].keys : items[i].keys[j] = "path"
         THEN items[i].vals[CHOOSE j \in DOMAIN items[i].keys : items[i].keys[j] = "path"]
         ELSE Undefined

\* C1: in a grouped run over N >= 1 groups, whatever the outcome of each call,
\* the client is invoked exactly N times and the delay occurs exactly N - 1
\* times, each delay directly between two invocations and none after the last:
\* the run never ends elsewhere than at the write, at the write the log holds N
\* calls and N - 1 delays, every delay directly follows a call and is directly
\* followed by one, and no delay is pending once N calls were made.
C1_CallsAndDelays ==
    (entry = "main" /\ Len(grouped.keys) >= 1) =>
        LET n == Len(grouped.keys)
        IN  /\ Count(log, "call") <= n
            /\ Ended => pc = "write"
            /\ pc = "write" => Count(log, "call") = n /\ Count(log, "delay") = n - 1
            /\ pc = "delay" => Count(log, "call") < n
            /\ \A i \in DOMAIN log :
                 /\ (log[i] = "delay") => (i > 1 /\ log[i - 1] = "call")
                 /\ (log[i] = "delay" /\ i < Len(log)) => log[i + 1] = "call"
                 /\ (log[i] = "call" /\ i < Len(log)) => log[i + 1] \in {"delay", "write"}
                 /\ (log[i] = "call" /\ i < Len(log) /\ log[i + 1] = "write") =>
                        Count(SubSeq(log, 1, i), "call") = n

\* A grouped run over three groups has ended, with results of both kinds.
C1_Witness ==
    /\ entry = "main"
    /\ pc = "write"
    /\ Len(grouped.keys) = 3
    /\ Count(log, "call") = 3
    /\ Count(log, "delay") = 2
    /\ \E i, j \in DOMAIN results : IsErrorRecord(results[i]) /\ IsSuccessRecord(results[j])

\* The value each reply's text parses to, once cleaned, tabulated over the
\* replies a run can receive.
ReplyTable ==
    [o \in {x \in ItemOutcomes \cup InventoryOutcomes : x.kind = "content"} |->
        JSONparse(CleanResponse(o.text))]

ReplyValue(o) == ReplyTable[o]

HasField(v, key, types) ==
    /\ v.t = "object"
    /\ \E j \in DOMAIN v.keys : v.keys[j] = key /\ v.vals[j].t \in types

\* A reply that is not usable, in the claim's sense: no 2xx status, no
\* content, no valid JSON, or JSON without array-valued queries and mutations.
C2_NotUsable(o) ==
    \/ o.kind # "content"
    \/ LET r == ReplyValue(o)
       IN  \/ ~r.ok
           \/ ~HasField(r.val, "queries", {"array"})
           \/ ~HasField(r.val, "mutations", {"array"})

NonNullTypes == {"array", "object", "string", "number"}

\* A reply that has no queries or no mutations at all (or null for one).
C2_LacksField(o) ==
    \/ o.kind # "content"
    \/ LET r == ReplyValue(o)
       IN  \/ ~r.ok
           \/ ~HasField(r.val, "queries", NonNullTypes)
           \/ ~HasField(r.val, "mutations", NonNullTypes)

C3_InventoryFailed ==
    /\ entry = "index"
    /\ \/ inventory.kind \in {"non2xx", "nochoices", "badbody"}
       \/ inventory.kind = "content" /\ ~ReplyValue(inventory).ok

\* C3 as claimed: the run whose page-inventory call failed does not exit
\* non-zero and still writes the output file.
C3_Original ==
    (C3_InventoryFailed /\ Ended) => (exitStatus = "0" /\ Len(output) = 1)

\* C3, amended: a failed page-inventory call ends the run: the error is
\* printed, the process exits with status 1, no page is analysed and no output
\* file is written.
C3_InventoryFailureEndsRun ==
    C3_InventoryFailed =>
        /\ Ended
        /\ pc = "inventory"
        /\ exitStatus = "1"
        /\ printed
        /\ output = <<>>
        /\ results = <<>>
        /\ log = <<"call">>

\* The page-inventory reply was prose.
C3_Witness ==
    /\ entry = "index"
    /\ inventory = Content(ProseReply)
    /\ Ended

\* The scan (main) or the read of the input file (runAnalysis) succeeded.
InputPhaseDone == pc \notin {"start", "scan"}

\* The written collection holds one entry per item, the i-th of them for
\* the i-th item.
OneResultPerItem(data) ==
    /\ Len(data.analysisResults) = Len(items)
    /\ \A i \in DOMAIN items :
         IF ItemId(i).t = "undefined"
         THEN "page" \notin DOMAIN data.analysisResults[i]
         ELSE data.analysisResults[i].page = ItemId(i)

RECURSIVE FirstSeen(_, _, _)
FirstSeen(fs, i, acc) ==
    IF i > Len(fs) THEN acc
    ELSE LET k == TopLevelFolder(PagesPath, fs[i])
         IN  FirstSeen(fs, i + 1,
                       IF \E j \in DOMAIN acc : acc[j] = k THEN acc ELSE Append(acc, k))

\* C5: the groups are called, and their results pushed, in the order in which
\* groupFilesByPagesFolder first met each group key.
C5_DiscoveryOrder ==
    (entry = "main" /\ InputPhaseDone) =>
        /\ grouped.keys = FirstSeen(files, 1, <<>>)
        /\ \A i \in DOMAIN results : results[i].page = Str(FirstSeen(files, 1, <<>>)[i])

\* C6: in a page-discovery run a delay lies between every two consecutive
\* remote calls and none follows the final call: a call is never directly
\* followed by a call, a delay is always followed by a call, and when the loop
\* is over the last thing that happened is a call.
C6_DelaysBetweenCalls ==
    (entry = "index") =>
        /\ \A i \in DOMAIN log :
             /\ (log[i] = "call" /\ i < Len(log)) => log[i + 1] # "call"
             /\ (log[i] = "delay" /\ i < Len(log)) => log[i + 1] = "call"
        /\ (pc = "loop" /\ idx > Len(items)) => log[Len(log)] = "call"

\* A filesystem failure happened in the run that ended: in main only such a
\* failure prints an error; in runAnalysis the read of the input failed, or
\* the write of the output.
FilesystemFailure ==
    /\ Ended
    /\ \/ entry = "main" /\ printed
       \/ entry = "index" /\ pc = "start"
       \/ entry = "index" /\ pc = "write" /\ printed

\* C7: no filesystem failure is swallowed, and each ends the process with a
\* non-zero status after the error is printed.
C7_FailuresExitNonZero ==
    /\ ~swallowed
    /\ FilesystemFailure => (printed /\ exitStatus = "1")

FieldOf(v, key) == v.vals[CHOOSE j \in DOMAIN v.keys : v.keys[j] = key]

\* The value is an object with array-valued queries and mutations.
C8_ArrayValued(v) ==
    /\ HasField(v, "queries", {"array"})
    /\ HasField(v, "mutations", {"array"})

\* The record the claim expects for the i-th item, whose reply parsed to v.
C8_Expected(i, v) ==
    [page |-> ItemId(i), analysis |-> v,
     queryCount |-> Num(Len(FieldOf(v, "queries").items)),
     mutationCount |-> Num(Len(FieldOf(v, "mutations").items))]

C8_NoNullElement(v) ==
    \A key \in {"queries", "mutations"} :
        \A j \in DOMAIN FieldOf(v, key).items : FieldOf(v, key).items[j].t # "null"

\* C8 as claimed: every reply that parses to an object with array-valued
\* queries and mutations yields the record {page, analysis, queryCount,
\* mutationCount}.
C8_Original ==
    \A i \in DOMAIN results :
        (replies[i].kind = "content") =>
            LET r == ReplyValue(replies[i])
            IN  (r.ok /\ C8_ArrayValued(r.val)) => results[i] = C8_Expected(i, r.val)

\* C8, amended: every reply that parses to an object with array-valued
\* queries and mutations, none of whose elements is null, yields the record
\* {page, analysis, queryCount, mutationCount}, with the parsed object as it
\* was parsed and the lengths of the two arrays, duplicates counted.
C8_SuccessRecord ==
    \A i \in DOMAIN results :
        (replies[i].kind = "content") =>
            LET r == ReplyValue(replies[i])
            IN  (r.ok /\ C8_ArrayValued(r.val) /\ C8_NoNullElement(r.val)) =>
                    results[i] = C8_Expected(i, r.val)

\* The reply with the same query name twice was counted for group home.
C8_Witness ==
    /\ entry = "main"
    /\ \E i \in DOMAIN results :
         /\ replies[i] = Content(DuplicateReply)
         /\ results[i].page = Str("home")
         /\ results[i].queryCount = Num(2)
         /\ results[i].mutationCount = Num(0)

\* C9 as claimed: a valid JSON text J, alone, between the two fence lines, or
\* between them with a newline after the closing fence, is post-processed to
\* the value J parses to.
C9_Original ==
    (pc = "parsed") =>
        \A txt \in JsonTexts \cup OtherTexts, w \in {"none", "fenced", "fencedNewline"} :
            (JSONparse(txt).ok /\ replies[1] = Content(Wrap(txt, w))) =>
                parseResult = Return(JSONparse(txt).val)

\* C9, amended: a valid JSON text J, alone or between the two fence lines
\* with nothing after the closing fence, is post-processed to the value J
\* parses to.
C9_RoundTrip ==
    (pc = "parsed") =>
        \A txt \in JsonTexts \cup OtherTexts, w \in {"none", "fenced"} :
            (JSONparse(txt).ok /\ replies[1] = Content(Wrap(txt, w))) =>
                parseResult = Return(JSONparse(txt).val)

\* A fenced summary was post-processed.
C9_Witness ==
    /\ pc = "parsed"
    /\ replies[1] = Content(Wrap(DuplicateReply, "fenced"))
    /\ ~parseResult.thrown

\* The names of the model that end in .js, .jsx, .ts or .tsx, and the
\* contents that hold one of the two markers.
C10_SourceNames == {"a.js", "a.jsx", "b.ts", "b.tsx", "c.ts", "d.js", "sock.js",
                    "util.ts", "Home.jsx"}
C10_MarkedContents == {GqlContent, GraphqlContent}

\* The regular files of a listing, at any depth, with such a name and content.
RECURSIVE C10_Expected(_, _)
C10_Expected(path, entries) ==
    UNION {LET e == entries[i]
           IN  CASE e.kind = "dir" -> C10_Expected(Append(path, e.name), e.entries)
                 [] e.kind = "file" ->
                        IF e.name \in C10_SourceNames /\ e.content \in C10_MarkedContents
                        THEN {Append(path, e.name)} ELSE {}
                 [] OTHER -> {} : i \in DOMAIN entries}

\* C10: what findGraphQLFiles returns is exactly the set of the tree's regular
\* files with a recognised extension and a marker, each once.
C10_ExactFiles ==
    (pc = "scanned") =>
        /\ {files[i] : i \in DOMAIN files} = C10_Expected(RepoPath, tree.entries)
        /\ \A i, j \in DOMAIN files : files[i] = files[j] => i = j

\* A scan returned files of several directories, one three levels down, from a
\* tree that also holds files that do not qualify.
C10_Witness ==
    /\ pc = "scanned"
    /\ Len(files) >= 3
    /\ \E i \in DOMAIN files : Len(files[i]) = Len(RepoPath) + 3
    /\ \E i \in DOMAIN tree.entries : tree.entries[i].kind = "file"
                                      /\ tree.entries[i].name \in {"x.json", "notes.md"}

\* The first segment of a file's path relative to the pages root: the segment
\* that follows the root in a path below it, and .. for a path that is not.
C11_Key(f) ==
    IF Len(f) > Len(PagesPath) /\ SubSeq(f, 1, Len(PagesPath)) = PagesPath
    THEN f[Len(PagesPath) + 1]
    ELSE ".."

\* C11: groupFilesByPagesFolder puts each file under the first segment of its
\* path relative to the pages root (.. for a file outside the root, its own
\* name for a file directly in it): the keys are those segments, each once,
\* and the list of a key is the files of that segment in the input's order.
C11_GroupedByFirstSegment ==
    (entry = "group" /\ pc = "grouped") =>
        /\ {grouped.keys[j] : j \in DOMAIN grouped.keys} =
               {C11_Key(files[i]) : i \in DOMAIN files}
        /\ \A j, k \in DOMAIN grouped.keys : grouped.keys[j] = grouped.keys[k] => j = k
        /\ Len(grouped.vals) = Len(grouped.keys)
        /\ \A j \in DOMAIN grouped.keys :
             LET OfKey(f) == C11_Key(f) = grouped.keys[j]
             IN  grouped.vals[j] = SelectSeq(files, OfKey)

\* A list was grouped in which a file outside the root lies between two
\* different files of folder home.
C11_Witness ==
    /\ entry = "group"
    /\ pc = "grouped"
    /\ Len(files) = 3
    /\ files[1] = PagesPath \o <<"home", "sub", "a.js">>
    /\ files[2] = RepoPath \o <<"src", "util.ts">>
    /\ files[3] = PagesPath \o <<"home", "Home.jsx">>
    /\ grouped.keys = <<"home", "..">>
    /\ grouped.vals = <<(<<files[1], files[3]>>), (<<files[2]>>)>>

\* C12: grouping the concatenation of the returned groups, taken in the
\* returned key order, against the same root returns the same object: the
\* same keys in the same order and the same file list under each key.
C12_Idempotent ==
    [][(entry = "group" /\ pc = "grouped" /\ pc' = "regrouped") =>
           /\ files' = Concat(grouped.vals, Len(grouped.vals))
           /\ grouped' = grouped]_vars

\* A grouping with an integer-like key and a folder of two files was grouped
\* again.
C12_Witness ==
    /\ entry = "group"
    /\ pc = "regrouped"
    /\ grouped.keys = <<"9", "home">>
    /\ Len(grouped.vals[2]) = 2
    /\ grouped.vals[2][1] # grouped.vals[2][2]

\* The scan has ended: findGraphQLFiles returned, or rejected.
C13_Terminated == pc \in {"scanned", "thrown"}

\* Some directory of the listing holds a symbolic link to one of its own
\* ancestors (or to itself).
RECURSIVE C13_HasCycleLink(_, _)
C13_HasCycleLink(path, entries) ==
    \E i \in DOMAIN entries :
        LET e == entries[i]
        IN  \/ /\ e.kind = "symlink"
               /\ Len(e.target) <= Len(path)
               /\ SubSeq(path, 1, Len(e.target)) = e.target
            \/ e.kind = "dir" /\ C13_HasCycleLink(Append(path, e.name), e.entries)

\* The paths of the directories of a listing, at any depth, links left out.
RECURSIVE C13_Directories(_, _)
C13_Directories(path, entries) ==
    UNION {IF entries[i].kind = "dir"
           THEN {Append(path, entries[i].name)}
                \cup C13_Directories(Append(path, entries[i].name), entries[i].entries)
           ELSE {} : i \in DOMAIN entries}

C13_EachDirectoryOnce ==
    /\ \A i, j \in DOMAIN visited : visited[i] = visited[j] => i = j
    /\ pc = "scanned" =>
         {visited[i] : i \in DOMAIN visited} =
             {RepoPath} \cup C13_Directories(RepoPath, tree.entries)

\* C13 as claimed: the scan of a tree with a symbolic link that closes a cycle
\* never ends, and the scan of any other tree lists every directory once.
C13_Original ==
    IF C13_HasCycleLink(RepoPath, tree.entries)
    THEN ~C13_Terminated
    ELSE C13_EachDirectoryOnce

\* C13, amended: a symbolic link is never followed, so the scan of every tree,
\* with or without a link that closes a cycle, ends (findGraphQLFiles returns,
\* or rejects at a read that fails), no directory is listed twice, and when it
\* returns every directory was listed once and none through a link.
C13_TerminatesOnEveryTree ==
    /\ <>C13_Terminated
    /\ []C13_EachDirectoryOnce

\* The scan of a tree of three directories that holds a link to its root
\* returned, with the three directories listed and the file beside the link
\* found.
C13_Witness ==
    /\ pc = "scanned"
    /\ C13_HasCycleLink(RepoPath, tree.entries)
    /\ Len(visited) = 3
    /\ \E i \in DOMAIN tree.entries :
         tree.entries[i].kind = "symlink" /\ tree.entries[i].target = RepoPath
    /\ RepoPath \o <<"a.js">> \in {files[i] : i \in DOMAIN files}

\* The remote calls started and not yet answered: every call the log shows,
\* less the page-inventory call once its reply arrived and the per-item calls
\* whose result was pushed.
C14_InFlight ==
    Count(log, "call") - Len(results)
        - (IF entry = "index" /\ inventory.kind # "none" THEN 1 ELSE 0)

C14_DelayPending == pc \in {"delay", "firstdelay"}

\* The per-item calls started so far: in a page-discovery run the first call
\* is the page-inventory call.
C14_ItemCalls ==
    IF entry = "index" /\ Count(log, "call") > 0
    THEN Count(log, "call") - 1
    ELSE Count(log, "call")

\* C14: a run is serialized: after every step at most one remote call is in
\* flight and none while a delay is pending, and a step that starts a remote
\* call is taken when no call is in flight and no delay is pending, the call
\* for item i + 1 when the results of items 1 to i were pushed.
C14_Serialized ==
    [][/\ C14_InFlight' \in {0, 1}
       /\ C14_DelayPending' => C14_InFlight' = 0
       /\ (Count(log', "call") > Count(log, "call")) =>
            /\ Count(log', "call") = Count(log, "call") + 1
            /\ C14_InFlight = 0
            /\ ~C14_DelayPending
            /\ Len(results) = C14_ItemCalls
            /\ (entry = "index" /\ Count(log, "call") > 0) => inventory.kind = "content"]_vars

\* The call for the third item of a run is in flight, two results pushed and
\* two delays over.
C14_Witness ==
    /\ pc = "call"
    /\ C14_ItemCalls = 3
    /\ Len(results) = 2
    /\ C14_InFlight = 1
    /\ Count(log, "delay") >= 2

\* The places of a file in the groups.
C15_Places(f) ==
    {<<j, k>> \in (DOMAIN grouped.vals) \X (1..Len(files)) :
        k <= Len(grouped.vals[j]) /\ grouped.vals[j][k] = f}

\* C15: the groups partition the scanner's list: every file of the list is in
\* exactly one group, once; every file of a group is of the list; no group is
\* empty, and a remote call is only ever started for a group that has files.
C15_Partition ==
    (entry = "main" /\ InputPhaseDone) =>
        /\ \A i \in DOMAIN files : Cardinality(C15_Places(files[i])) = 1
        /\ \A j \in DOMAIN grouped.vals :
             /\ Len(grouped.vals[j]) >= 1
             /\ Len(grouped.vals[j]) <= Len(files)
             /\ \A k \in DOMAIN grouped.vals[j] :
                  \E i \in DOMAIN files : files[i] = grouped.vals[j][k]
        /\ Len(grouped.keys) = Len(grouped.vals)
        /\ Len(items) = Len(grouped.keys)
        /\ pc = "call" => Len(grouped.vals[idx]) >= 1

\* The call for the second group of a run is in flight, one of the two groups
\* holding two of the three files the scan found.
C15_Witness ==
    /\ entry = "main"
    /\ pc = "call"
    /\ idx = 2
    /\ Len(files) = 3
    /\ Len(grouped.keys) = 2
    /\ \E j \in DOMAIN grouped.vals : Len(grouped.vals[j]) = 2
====
